---------------------------- MODULE Spec2Model ----------------------------
(***************************************************************************)
(* A model of tasks/osbuilder/build_image.py: the script that assembles a  *)
(* custom Minoca OS image from build_request.json.  main() is one          *)
(* sequential program; every variable below is either a local of main(),   *)
(* a piece of process state (working directory, environment, exit status)  *)
(* or the part of the outside world main() acts on (the tree under the     *)
(* binary root, the account database of the offline root, the commands     *)
(* handed to os.system).                                                   *)
(*                                                                         *)
(* Paths are sequences of components, <<"/", "w", "x86", "bin">>, so that  *)
(* os.path.join and os.path.normpath are computed and not assumed.         *)
(***************************************************************************)
EXTENDS Integers, Sequences, FiniteSets, TLC

(***************************************************************************)
(* Bounds of the model.                                                    *)
(***************************************************************************)
\* Entries of package_list and user_list, taken together, in one recipe.
MaxItems == 3

(***************************************************************************)
(* Values standing for "no value".                                         *)
(***************************************************************************)
\* A key that the JSON object does not hold (recipe['k'] raises KeyError).
Absent == "<absent>"
\* A local of main() that has not been assigned yet.
None == "<none>"
\* What an environment variable holds when the script starts: the value, or
\* the absence of one, that the parent process left.
Inherited == "<inherited>"
\* What base64.b64decode raises on instead of returning.
DecodeError == "<decode error>"

(***************************************************************************)
(* The fixed lists of the script.                                          *)
(***************************************************************************)
SYSTEM_BIN ==
    <<"debug", "efiboot", "mount", "umount", "msetup", "profile", "swiss",
      "vmstat">>

SYSTEM_LIB == <<"libc.so.1", "libminocaos.so.1", "libcrypt.so.1">>

(***************************************************************************)
(* Inputs: the values a build request is drawn from.                       *)
(***************************************************************************)
KnownPlatforms ==
    {"PC", "UEFI-based PC", "Raspberry Pi", "TI PandaBoard", "Intel Galileo"}

PlatformInputs == KnownPlatforms \cup {"Amiga"}

PackageNames == {"vim", "gcc"}

UserNames == {"root", "alice", "bob"}

ImageSizeInputs == {536870912}

\* Base64 texts of a user entry: well-formed ones and one with bad padding.
GecosInputs == {"QWxpY2UgQQ==", "Zm9", Absent}

PasswordInputs == {"c2VjcmV0", "Zm9", Absent}

KeysInputs == {"", "c3NoLXJzYSBBQUFB", "Zm9", Absent}

\* The JSON value of enable_password.
EnablePasswordInputs == {"true", "false", Absent}

\* What `/bin/swiss --list` prints: the command names of the multi-call binary.
SwissList == <<"sh", "ls">>

\* What the skeleton directory holds, relative to the apps directory.
SkelTree == {<<"etc">>, <<"etc", "passwd">>, <<"home">>}

\* Wait statuses os.system can return: exit 0, exit 1, killed by signal 9.
WaitStatuses == {0, 256, 9}

\* All sequences over S of length at most n.
SeqsUpTo(S, n) == UNION {[1..k -> S] : k \in 0..n}

\* The keys main() reads from the recipe.
Keys == {"platform", "package_list", "user_list", "image_size"}

\* The user lists of the model: root may be listed any number of times, any
\* other name once.
UserLists ==
    {l \in SeqsUpTo(UserNames, MaxItems) :
        \A j, k \in 1..Len(l) : (j # k /\ l[j] = l[k]) => l[j] = "root"}

\* The parsed content of build_request.json.  keys are the keys the JSON
\* object holds; a field whose key is missing is never read (it is held at a
\* fixed value so that one recipe is one record).  An entry of user_list is
\* given by its username; its other fields are drawn where main() reads them,
\* each exactly once.
Recipes ==
    {r \in [keys : SUBSET Keys,
            platform : PlatformInputs \cup {""},
            package_list : SeqsUpTo(PackageNames, MaxItems),
            user_list : UserLists,
            image_size : ImageSizeInputs \cup {0}] :
        /\ Len(r.package_list) + Len(r.user_list) <= MaxItems
        /\ ("platform" \in r.keys) = (r.platform # "")
        /\ ("package_list" \notin r.keys) => (r.package_list = <<>>)
        /\ ("user_list" \notin r.keys) => (r.user_list = <<>>)
        /\ ("image_size" \in r.keys) = (r.image_size # 0)}

\* The value of the local recipe before it is assigned.
NoRecipe ==
    [keys |-> {}, platform |-> "", package_list |-> <<>>, user_list |-> <<>>,
     image_size |-> 0]

\* The states of the request file: readable JSON, not there, not JSON.
NoFile == "<no file>"
NotJson == "<not json>"
RequestFiles == {"json", NoFile, NotJson}

(***************************************************************************)
(* Library functions, computed as the library computes them.               *)
(***************************************************************************)
\* os.path.join of two paths (the second one relative).
join(a, b) == a \o b

RECURSIVE collapse(_, _)
collapse(done, rest) ==
    IF rest = <<>> THEN done
    ELSE LET c == Head(rest) IN
         IF c = "." /\ done # <<>> THEN collapse(done, Tail(rest))
         ELSE IF c = ".." /\ Len(done) > 1 /\ done[Len(done)] # ".."
              THEN collapse(SubSeq(done, 1, Len(done) - 1), Tail(rest))
         ELSE IF c = ".." /\ done = <<"/">> THEN collapse(done, Tail(rest))
         ELSE collapse(Append(done, c), Tail(rest))

\* os.path.normpath: "." and "name/.." are removed.
normpath(p) == collapse(<<>>, p)

\* The directory a path lies in.
dirname(p) == SubSeq(p, 1, Len(p) - 1)

IsPrefix(a, b) == Len(a) <= Len(b) /\ SubSeq(b, 1, Len(a)) = a

\* base64.b64decode on the texts of the model.
b64decode(s) ==
    CASE s = "" -> ""
      [] s = "QWxpY2UgQQ==" -> "Alice A"
      [] s = "c2VjcmV0" -> "secret"
      [] s = "c3NoLXJzYSBBQUFB" -> "ssh-rsa AAAA"
      [] OTHER -> DecodeError

\* The words of the model that hold a character outside [A-Za-z0-9_@%+=:,./-].
UnsafeWords == {"Alice A", "ssh-rsa AAAA"}

\* shlex.quote: a word the shell reads back as s.
quote(s) ==
    IF s = "" THEN "''"
    ELSE IF s \in UnsafeWords THEN "'" \o s \o "'"
    ELSE s

Words == UserNames \cup {"", "Alice A", "secret", "ssh-rsa AAAA"}

\* What the shell hands to the command for a quoted word.
unquote(q) == CHOOSE s \in Words : quote(s) = q

\* str() of an image size.
str(n) == CASE n = 536870912 -> "536870912" [] OTHER -> "0"

\* os.WIFEXITED and os.WEXITSTATUS of a wait status.
WIFEXITED(status) == status % 128 = 0

WEXITSTATUS(status) == (status \div 256) % 256

(***************************************************************************)
(* The state.                                                              *)
(***************************************************************************)
VARIABLES
    \* the inputs of the run, which it never changes
    request_file,    \* whether build_request.json can be read and parsed
    build_request,   \* what it holds
    \* the world the run acts on, and the process
    fs,              \* the paths under the binary root, relative to it
    meta,            \* mode and owner of the paths main() chmods and chowns
    accounts,        \* the account database of the offline root
    env,             \* os.environ
    workdir,         \* the working directory of the process (os.chdir)
    log,             \* the commands handed to os.system, with their status
    exit_status,     \* the exit status of the process, -1 while it runs
    error,           \* what ended the run early
    pc,              \* the statement main() is at
    \* locals of main()
    recipe, cwd, imagescriptdir, platform, arch, image_script, image,
    pkgroot, binroot, appsdir, bindir, libdir, opkg_conf,
    loop_index,      \* the position of the for loop main() is in
    name, gecos, enable_password, password, extra_args, id, next_id,
    authorized_keys, dotssh, keyspath

inputVars == <<request_file, build_request>>

worldVars == <<fs, meta, accounts>>

pathVars ==
    <<cwd, imagescriptdir, platform, arch, image_script, image, pkgroot,
      binroot, appsdir, bindir, libdir, opkg_conf>>

userVars ==
    <<name, gecos, enable_password, password, extra_args, id, next_id,
      authorized_keys, dotssh, keyspath>>

vars ==
    <<inputVars, worldVars, env, workdir, log, exit_status, error, pc,
      recipe, pathVars, loop_index, userVars>>

\* The directory the script is started in.
StartDir == <<"/", "w", "client">>

EnvNames == {"CI_MIN_IMAGE_SIZE", "MIN_IMAGE_SIZE", "ARCH", "VARIANT", "DEBUG"}

\* The trees a run may find under the binary root: no apps directory, an
\* empty one, one with a stale file, one with a stale apps/bin.
OldTrees ==
    {{},
     {<<"apps">>},
     {<<"apps">>, <<"apps", "stale">>},
     {<<"apps">>, <<"apps", "bin">>, <<"apps", "bin", "debug">>}}

Init ==
    /\ request_file \in RequestFiles
    /\ build_request \in
         IF request_file = "json" THEN Recipes ELSE {NoRecipe}
    /\ fs \in OldTrees
    /\ meta = [modes |-> {}, owners |-> {}]
    /\ accounts = {}
    /\ env = [v \in EnvNames |-> Inherited]
    /\ workdir = StartDir
    /\ log = <<>>
    /\ exit_status = -1
    /\ error = None
    /\ pc = "load"
    /\ recipe = NoRecipe
    /\ cwd = <<>>
    /\ imagescriptdir = <<>>
    /\ platform = None
    /\ arch = None
    /\ image_script = <<>>
    /\ image = None
    /\ pkgroot = <<>>
    /\ binroot = <<>>
    /\ appsdir = <<>>
    /\ bindir = <<>>
    /\ libdir = <<>>
    /\ opkg_conf = <<>>
    /\ loop_index = 0
    /\ name = None
    /\ gecos = None
    /\ enable_password = FALSE
    /\ password = None
    /\ extra_args = None
    /\ id = -1
    /\ next_id = -1
    /\ authorized_keys = None
    /\ dotssh = <<>>
    /\ keyspath = <<>>

(***************************************************************************)
(* How a run ends.                                                         *)
(***************************************************************************)
\* An exception nobody catches: the interpreter prints it and exits with 1.
raise(e) ==
    /\ pc' = "failed"
    /\ exit_status' = 1
    /\ error' = e

\* A changed return: main() is called without exit(), so that the process
\* ends with 0 whatever main() returns.
return_Unchecked(value) ==
    /\ pc' = IF value = 0 THEN "done" ELSE "failed"
    /\ exit_status' = 0
    /\ error' = IF value = 0 THEN None ELSE "return 1"

\* exit(main(sys.argv)) with the value main() returns.
return(value) ==
    /\ pc' = IF value = 0 THEN "done" ELSE "failed"
    /\ exit_status' = value
    /\ error' = IF value = 0 THEN None ELSE "return 1"

\* The next statement.
goto(label) ==
    /\ pc' = label
    /\ UNCHANGED <<exit_status, error>>

\* A changed run: a command that failed is issued again.
run_Retry(working_dir, command, status, after) ==
    /\ workdir' = working_dir
    /\ log' = Append(log, [wd |-> working_dir, command |-> command,
                           status |-> status])
    /\ IF (~WIFEXITED(status)) \/ (WEXITSTATUS(status) # 0)
       THEN goto(pc)
       ELSE goto(after)

\* A changed run: only the exit code is looked at, not whether the command
\* exited at all.
run_ExitCodeOnly(working_dir, command, status, after) ==
    /\ workdir' = working_dir
    /\ log' = Append(log, [wd |-> working_dir, command |-> command,
                           status |-> status])
    /\ IF WEXITSTATUS(status) # 0
       THEN raise("SystemExit")
       ELSE goto(after)

\* run(working_dir, command), the command ending with the wait status
\* status: the process changes directory, the command runs, and a status
\* that is not a normal exit with 0 ends the process with exit(1).
run(working_dir, command, status, after) ==
    /\ workdir' = working_dir
    /\ log' = Append(log, [wd |-> working_dir, command |-> command,
                           status |-> status])
    /\ IF (~WIFEXITED(status)) \/ (WEXITSTATUS(status) # 0)
       THEN raise("SystemExit")
       ELSE goto(after)

\* A command line: the program, its subcommand, the paths and the words it is
\* given, and the number it is given (-1: none).
Command(prog, verb, paths, words, number) ==
    [prog |-> prog, verb |-> verb, paths |-> paths, words |-> words,
     number |-> number]

\* What a command did is decided by the command: it did its work if and only
\* if it ended with a normal exit of 0.
Worked(status) == status = 0

(***************************************************************************)
(* Load and Resolve: lines 70-107.                                         *)
(***************************************************************************)
\* Lines 70-74: read and parse build_request.json.
Load ==
    /\ pc = "load"
    /\ IF request_file = NoFile
       THEN raise("IOError") /\ UNCHANGED <<recipe, cwd, imagescriptdir>>
       ELSE IF request_file = NotJson
       THEN raise("ValueError") /\ UNCHANGED <<recipe, cwd, imagescriptdir>>
       ELSE /\ recipe' = build_request
            /\ cwd' = workdir
            /\ imagescriptdir' =
                 join(workdir, <<"..", "..", "tasks", "images">>)
            /\ goto("resolve")
    /\ UNCHANGED <<inputVars, worldVars, env, workdir, log, platform, arch,
                   image_script, image, pkgroot, binroot, appsdir, bindir,
                   libdir, opkg_conf, loop_index, userVars>>

\* A changed resolve: for a PC the image script is chosen by what the last
\* build left in the binary root.
resolve_ByTree(p, scriptdir) ==
    IF p = "PC"
    THEN [known |-> TRUE, arch |-> "x86",
          image_script |->
              join(scriptdir,
                   IF fs = {} THEN <<"build_pc.sh">> ELSE <<"build_pcefi.sh">>),
          image |-> IF fs = {} THEN "pc.img" ELSE "pcefi.img"]
    ELSE IF p = "UEFI-based PC"
    THEN [known |-> TRUE, arch |-> "x86",
          image_script |-> join(scriptdir, <<"build_pcefi.sh">>),
          image |-> "pcefi.img"]
    ELSE IF p = "Raspberry Pi"
    THEN [known |-> TRUE, arch |-> "armv6",
          image_script |-> join(scriptdir, <<"build_rpi.sh">>),
          image |-> "rpi.img"]
    ELSE IF p = "TI PandaBoard"
    THEN [known |-> TRUE, arch |-> "armv7",
          image_script |-> join(scriptdir, <<"build_panda.sh">>),
          image |-> "panda.img"]
    ELSE IF p = "Intel Galileo"
    THEN [known |-> TRUE, arch |-> "x86q",
          image_script |-> join(scriptdir, <<"build_pcefi.sh">>),
          image |-> "pcefi.img"]
    ELSE [known |-> FALSE, arch |-> None, image_script |-> <<>>,
          image |-> None]

\* A changed resolve: the else branch is missing, an unknown platform is
\* built as a PC.
resolve_NoElse(p, scriptdir) ==
    IF p = "UEFI-based PC"
    THEN [known |-> TRUE, arch |-> "x86",
          image_script |-> join(scriptdir, <<"build_pcefi.sh">>),
          image |-> "pcefi.img"]
    ELSE IF p = "Raspberry Pi"
    THEN [known |-> TRUE, arch |-> "armv6",
          image_script |-> join(scriptdir, <<"build_rpi.sh">>),
          image |-> "rpi.img"]
    ELSE IF p = "TI PandaBoard"
    THEN [known |-> TRUE, arch |-> "armv7",
          image_script |-> join(scriptdir, <<"build_panda.sh">>),
          image |-> "panda.img"]
    ELSE IF p = "Intel Galileo"
    THEN [known |-> TRUE, arch |-> "x86q",
          image_script |-> join(scriptdir, <<"build_pcefi.sh">>),
          image |-> "pcefi.img"]
    ELSE [known |-> TRUE, arch |-> "x86",
          image_script |-> join(scriptdir, <<"build_pc.sh">>),
          image |-> "pc.img"]

\* Lines 76-103: the if chain over the platform.  known is FALSE in the
\* else branch.
resolve(p, scriptdir) ==
    IF p = "PC"
    THEN [known |-> TRUE, arch |-> "x86",
          image_script |-> join(scriptdir, <<"build_pc.sh">>),
          image |-> "pc.img"]
    ELSE IF p = "UEFI-based PC"
    THEN [known |-> TRUE, arch |-> "x86",
          image_script |-> join(scriptdir, <<"build_pcefi.sh">>),
          image |-> "pcefi.img"]
    ELSE IF p = "Raspberry Pi"
    THEN [known |-> TRUE, arch |-> "armv6",
          image_script |-> join(scriptdir, <<"build_rpi.sh">>),
          image |-> "rpi.img"]
    ELSE IF p = "TI PandaBoard"
    THEN [known |-> TRUE, arch |-> "armv7",
          image_script |-> join(scriptdir, <<"build_panda.sh">>),
          image |-> "panda.img"]
    ELSE IF p = "Intel Galileo"
    THEN [known |-> TRUE, arch |-> "x86q",
          image_script |-> join(scriptdir, <<"build_pcefi.sh">>),
          image |-> "pcefi.img"]
    ELSE [known |-> FALSE, arch |-> None, image_script |-> <<>>,
          image |-> None]

\* A changed derivation: the roots are named after the architecture that is
\* exported as ARCH.
Resolve_ExportedArch ==
    /\ pc = "resolve"
    /\ IF "platform" \notin recipe.keys
       THEN /\ raise("KeyError")
            /\ UNCHANGED <<platform, arch, image_script, image, pkgroot,
                           binroot, appsdir>>
       ELSE LET r == resolve(recipe.platform, imagescriptdir) IN
            /\ platform' = recipe.platform
            /\ IF ~r.known
               THEN /\ return(1)
                    /\ UNCHANGED <<arch, image_script, image, pkgroot,
                                   binroot, appsdir>>
               ELSE /\ arch' = r.arch
                    /\ image_script' = r.image_script
                    /\ image' = r.image
                    /\ pkgroot' =
                         normpath(join(cwd, <<"..", IF r.arch = "x86q" THEN "x86"
                                             ELSE r.arch, "packages">>))
                    /\ binroot' =
                         normpath(join(cwd, <<"..", IF r.arch = "x86q" THEN "x86"
                                             ELSE r.arch, "bin">>))
                    /\ appsdir' =
                         join(normpath(join(cwd, <<"..", IF r.arch = "x86q" THEN "x86"
                                             ELSE r.arch, "bin">>)),
                              <<"apps">>)
                    /\ goto("rmtree")
    /\ UNCHANGED <<inputVars, worldVars, env, workdir, log, recipe, cwd,
                   imagescriptdir, bindir, libdir, opkg_conf, loop_index,
                   userVars>>

\* Lines 75-107: read the platform, resolve it, derive the roots.
Resolve ==
    /\ pc = "resolve"
    /\ IF "platform" \notin recipe.keys
       THEN /\ raise("KeyError")
            /\ UNCHANGED <<platform, arch, image_script, image, pkgroot,
                           binroot, appsdir>>
       ELSE LET r == resolve(recipe.platform, imagescriptdir) IN
            /\ platform' = recipe.platform
            /\ IF ~r.known
               THEN /\ return(1)
                    /\ UNCHANGED <<arch, image_script, image, pkgroot,
                                   binroot, appsdir>>
               ELSE /\ arch' = r.arch
                    /\ image_script' = r.image_script
                    /\ image' = r.image
                    /\ pkgroot' =
                         normpath(join(cwd, <<"..", r.arch, "packages">>))
                    /\ binroot' =
                         normpath(join(cwd, <<"..", r.arch, "bin">>))
                    /\ appsdir' =
                         join(normpath(join(cwd, <<"..", r.arch, "bin">>)),
                              <<"apps">>)
                    /\ goto("rmtree")
    /\ UNCHANGED <<inputVars, worldVars, env, workdir, log, recipe, cwd,
                   imagescriptdir, bindir, libdir, opkg_conf, loop_index,
                   userVars>>

(***************************************************************************)
(* The file system under the binary root.                                  *)
(***************************************************************************)
\* A path under the binary root, relative to it.
Rel(path) == SubSeq(path, Len(binroot) + 1, Len(path))

exists(path) == Rel(path) \in fs

\* The paths of fs at or below path.
tree(path) == {q \in fs : IsPrefix(Rel(path), q)}

\* What shutil.rmtree(path, True) may leave of the tree at path: nothing, or,
\* when a removal failed (the error is ignored), path itself and any part of
\* what was below it.
rmtreeLeaves(path) ==
    {left \in SUBSET tree(path) :
        /\ left # {} => Rel(path) \in left
        /\ \A q \in left : q # Rel(path) => dirname(q) \in left}

\* A changed mkdir: a directory that is there already is accepted.
mayCreate_ExistOk(path) ==
    dirname(path) = binroot \/ exists(dirname(path))

\* Whether os.mkdir(path) can succeed: nothing is at path and the directory
\* it lies in is there (the binary root itself is taken to be there).
mayCreate(path) ==
    /\ ~exists(path)
    /\ dirname(path) = binroot \/ exists(dirname(path))

\* os.mkdir(path), succeeding (ok) or raising OSError.
mkdir(path, ok, after) ==
    IF ok
    THEN fs' = fs \cup {Rel(path)} /\ goto(after)
    ELSE raise("OSError") /\ UNCHANGED fs

Range(l) == {l[k] : k \in 1..Len(l)}

\* A changed loop: the list is gone through from its end.
fetch_Reversed(list, fetched) == list[Len(list) - fetched]

\* The item a for loop over list takes next, fetched items having been taken.
fetch(list, fetched) == list[fetched + 1]

(***************************************************************************)
(* Assemble: lines 109-149.                                                *)
(***************************************************************************)
\* Line 113: shutil.rmtree(appsdir, True).
RemoveApps ==
    /\ pc = "rmtree"
    /\ \E left \in rmtreeLeaves(appsdir) :
         fs' = (fs \ tree(appsdir)) \cup left
    /\ goto("mkdir_apps")
    /\ UNCHANGED <<inputVars, meta, accounts, env, workdir, log, recipe,
                   pathVars, loop_index, userVars>>

\* Line 114: os.mkdir(appsdir).
MkdirApps ==
    /\ pc = "mkdir_apps"
    /\ \E ok \in BOOLEAN :
         /\ ok => mayCreate(appsdir)
         /\ mkdir(appsdir, ok, "mkdir_bin")
    /\ UNCHANGED <<inputVars, meta, accounts, env, workdir, log, recipe,
                   pathVars, loop_index, userVars>>

\* Lines 120-121: bindir and os.mkdir(bindir).
MkdirBin ==
    /\ pc = "mkdir_bin"
    /\ bindir' = join(appsdir, <<"bin">>)
    /\ \E ok \in BOOLEAN :
         /\ ok => mayCreate(join(appsdir, <<"bin">>))
         /\ mkdir(join(appsdir, <<"bin">>), ok, "cp_bin")
    /\ loop_index' = 0
    /\ UNCHANGED <<inputVars, meta, accounts, env, workdir, log, recipe,
                   cwd, imagescriptdir, platform, arch, image_script, image,
                   pkgroot, binroot, appsdir, libdir, opkg_conf, userVars>>

\* The cp command of lines 123-125 and 131-133.
cpCommand(dir, item) ==
    Command("cp", "-pv --", <<join(<<".">>, <<item>>), join(dir, <<item>>)>>,
            <<>>, -1)

\* Lines 122-126: one turn of the loop over SYSTEM_BIN.
CopyBin ==
    /\ pc = "cp_bin"
    /\ loop_index' = loop_index + 1
    /\ LET binitem == fetch(SYSTEM_BIN, loop_index) IN
       \E status \in WaitStatuses :
         /\ run(binroot, cpCommand(bindir, binitem), status,
                IF loop_index + 1 < Len(SYSTEM_BIN)
                THEN "cp_bin" ELSE "mkdir_lib")
         /\ fs' = IF Worked(status)
                  THEN fs \cup {Rel(join(bindir, <<binitem>>))}
                  ELSE fs
    /\ UNCHANGED <<inputVars, meta, accounts, env, recipe, pathVars,
                   userVars>>

\* Lines 128-129: libdir and os.mkdir(libdir).
MkdirLib ==
    /\ pc = "mkdir_lib"
    /\ libdir' = join(appsdir, <<"lib">>)
    /\ \E ok \in BOOLEAN :
         /\ ok => mayCreate(join(appsdir, <<"lib">>))
         /\ mkdir(join(appsdir, <<"lib">>), ok, "cp_lib")
    /\ loop_index' = 0
    /\ UNCHANGED <<inputVars, meta, accounts, env, workdir, log, recipe,
                   cwd, imagescriptdir, platform, arch, image_script, image,
                   pkgroot, binroot, appsdir, bindir, opkg_conf, userVars>>

\* Lines 130-134: one turn of the loop over SYSTEM_LIB.
CopyLib ==
    /\ pc = "cp_lib"
    /\ loop_index' = loop_index + 1
    /\ LET libitem == fetch(SYSTEM_LIB, loop_index) IN
       \E status \in WaitStatuses :
         /\ run(binroot, cpCommand(libdir, libitem), status,
                IF loop_index + 1 < Len(SYSTEM_LIB)
                THEN "cp_lib" ELSE "makedirs_opkg")
         /\ fs' = IF Worked(status)
                  THEN fs \cup {Rel(join(libdir, <<libitem>>))}
                  ELSE fs
    /\ UNCHANGED <<inputVars, meta, accounts, env, recipe, pathVars,
                   userVars>>

\* Line 136: os.makedirs(appsdir/usr/lib/opkg), which makes the directories
\* on the way and raises OSError when the last one is there already.
MakedirsOpkg ==
    /\ pc = "makedirs_opkg"
    /\ \E ok \in BOOLEAN :
         /\ ok => ~exists(join(appsdir, <<"usr", "lib", "opkg">>))
         /\ IF ok
            THEN /\ fs' = fs \cup {Rel(join(appsdir, <<"usr">>)),
                                   Rel(join(appsdir, <<"usr", "lib">>)),
                                   Rel(join(appsdir, <<"usr", "lib", "opkg">>))}
                 /\ goto("cp_skel")
            ELSE raise("OSError") /\ UNCHANGED fs
    /\ UNCHANGED <<inputVars, meta, accounts, env, workdir, log, recipe,
                   pathVars, loop_index, userVars>>

\* The account the skeleton's password file holds.
SkelAccounts ==
    {[name |-> "root", uid |-> 0, home |-> <<"root">>, password |-> ""]}

\* Line 142: copy the skeleton directory over the apps directory.
CopySkel ==
    /\ pc = "cp_skel"
    /\ \E status \in WaitStatuses :
         /\ run(binroot,
                Command("cp", "-Rpv", <<<<".", "skel", "*">>, <<".", "apps">>>>,
                        <<>>, -1),
                status, "ln_loop")
         /\ IF Worked(status)
            THEN /\ fs' = fs \cup {Rel(join(appsdir, q)) : q \in SkelTree}
                 /\ accounts' = SkelAccounts
            ELSE UNCHANGED <<fs, accounts>>
    /\ UNCHANGED <<inputVars, meta, env, recipe, pathVars, loop_index,
                   userVars>>

\* The exit status of the shell's for loop over list whose commands failed
\* for the names in failed: the status of the last command it ran.
forStatus(list, failed) ==
    IF list # <<>> /\ list[Len(list)] \in failed THEN 256 ELSE 0

\* Lines 148-149: the shell loop `ln -s swiss $app` over the command names.
\* Each ln may fail on its own; the loop goes on, and ends with the status
\* of the last ln unless the shell is killed.
SymlinkUtils ==
    /\ pc = "ln_loop"
    /\ \E failed \in SUBSET Range(SwissList), killed \in BOOLEAN :
         LET status == IF killed THEN 9 ELSE forStatus(SwissList, failed) IN
         /\ run(bindir,
                Command("for", "ln -s swiss $app", <<>>, SwissList, -1),
                status, "opkg_update")
         /\ fs' = fs \cup {Rel(join(bindir, <<a>>)) :
                             a \in Range(SwissList) \ failed}
    /\ UNCHANGED <<inputVars, meta, accounts, env, recipe, pathVars,
                   loop_index, userVars>>

(***************************************************************************)
(* Install packages: lines 151-167.                                        *)
(***************************************************************************)
\* An opkg command line: opkg_args of line 157 and the subcommand.
opkgCommand(verb, conf, words) ==
    Command("opkg", verb, <<appsdir, conf>>, words, -1)

\* A changed refresh: it is left out when the recipe names no package.
OpkgUpdate_OnlyWithPackages ==
    /\ pc = "opkg_update"
    /\ opkg_conf' = join(cwd, <<"..", arch, "opkg.conf">>)
    /\ IF recipe.package_list = <<>>
       THEN goto("for_package") /\ UNCHANGED <<fs, workdir, log>>
       ELSE \E status \in WaitStatuses :
              /\ run(appsdir,
                     opkgCommand("update",
                                 join(cwd, <<"..", arch, "opkg.conf">>), <<>>),
                     status, "for_package")
              /\ fs' = IF Worked(status)
                       THEN fs \cup {Rel(join(appsdir,
                                         <<"usr", "lib", "opkg", "lists">>))}
                       ELSE fs
    /\ UNCHANGED <<inputVars, meta, accounts, env, recipe, cwd,
                   imagescriptdir, platform, arch, image_script, image,
                   pkgroot, binroot, appsdir, bindir, libdir, loop_index,
                   userVars>>

\* Lines 155-158: refresh the package index of the offline root.
OpkgUpdate ==
    /\ pc = "opkg_update"
    /\ opkg_conf' = join(cwd, <<"..", arch, "opkg.conf">>)
    /\ \E status \in WaitStatuses :
         /\ run(appsdir,
                opkgCommand("update",
                            join(cwd, <<"..", arch, "opkg.conf">>), <<>>),
                status, "for_package")
         /\ fs' = IF Worked(status)
                  THEN fs \cup {Rel(join(appsdir,
                                         <<"usr", "lib", "opkg", "lists">>))}
                  ELSE fs
    /\ UNCHANGED <<inputVars, meta, accounts, env, recipe, cwd,
                   imagescriptdir, platform, arch, image_script, image,
                   pkgroot, binroot, appsdir, bindir, libdir, loop_index,
                   userVars>>

\* Line 164: recipe['package_list'] is read and the loop over it starts.
ForPackage ==
    /\ pc = "for_package"
    /\ IF "package_list" \notin recipe.keys
       THEN raise("KeyError")
       ELSE goto(IF recipe.package_list = <<>> THEN "next_id" ELSE "install")
    /\ loop_index' = 0
    /\ UNCHANGED <<inputVars, worldVars, env, workdir, log, recipe, pathVars,
                   userVars>>

\* Lines 164-167: one turn of the loop: install the next package.
InstallPackage ==
    /\ pc = "install"
    /\ loop_index' = loop_index + 1
    /\ LET package == fetch(recipe.package_list, loop_index) IN
       \E status \in WaitStatuses :
         /\ run(appsdir,
                opkgCommand("install --force-postinstall", opkg_conf,
                            <<package>>),
                status,
                IF loop_index + 1 < Len(recipe.package_list)
                THEN "install" ELSE "next_id")
         /\ fs' = IF Worked(status)
                  THEN fs \cup {Rel(join(appsdir,
                                   <<"usr", "lib", "opkg", "info", package>>))}
                  ELSE fs
    /\ UNCHANGED <<inputVars, meta, accounts, env, recipe, pathVars,
                   userVars>>

(***************************************************************************)
(* Provision users: lines 169-217.                                         *)
(***************************************************************************)
\* A changed loop: it is left after its first entry.
nextUser_FirstOnly == "env_size"

\* Where the loop over user_list goes after an entry: on to the next entry,
\* or past the loop.
nextUser ==
    IF loop_index < Len(recipe.user_list) THEN "read_name" ELSE "env_size"

\* Lines 173-174: the counter, and recipe['user_list'] is read.
ForUser ==
    /\ pc = "next_id"
    /\ next_id' = 1000
    /\ IF "user_list" \notin recipe.keys
       THEN raise("KeyError")
       ELSE goto(IF recipe.user_list = <<>> THEN "env_size" ELSE "read_name")
    /\ loop_index' = 0
    /\ UNCHANGED <<inputVars, worldVars, env, workdir, log, recipe, pathVars,
                   name, gecos, enable_password, password, extra_args, id,
                   authorized_keys, dotssh, keyspath>>

\* Lines 174-175: the next entry; its quoted username.
ReadName ==
    /\ pc = "read_name"
    /\ loop_index' = loop_index + 1
    /\ name' = quote(fetch(recipe.user_list, loop_index))
    /\ goto("read_gecos")
    /\ UNCHANGED <<inputVars, worldVars, env, workdir, log, recipe, pathVars,
                   gecos, enable_password, password, extra_args, id, next_id,
                   authorized_keys, dotssh, keyspath>>

\* Line 176: gecos, decoded and quoted.
ReadGecos ==
    /\ pc = "read_gecos"
    /\ \E text \in GecosInputs :
         IF text = Absent
         THEN raise("KeyError") /\ UNCHANGED gecos
         ELSE IF b64decode(text) = DecodeError
         THEN raise("TypeError") /\ UNCHANGED gecos
         ELSE gecos' = quote(b64decode(text)) /\ goto("read_enable")
    /\ UNCHANGED <<inputVars, worldVars, env, workdir, log, recipe, pathVars,
                   loop_index, name, enable_password, password, extra_args,
                   id, next_id, authorized_keys, dotssh, keyspath>>

\* Line 177: enable_password.
ReadEnablePassword ==
    /\ pc = "read_enable"
    /\ \E value \in EnablePasswordInputs :
         IF value = Absent
         THEN raise("KeyError") /\ UNCHANGED enable_password
         ELSE enable_password' = (value = "true") /\ goto("read_password")
    /\ UNCHANGED <<inputVars, worldVars, env, workdir, log, recipe, pathVars,
                   loop_index, name, gecos, password, extra_args, id,
                   next_id, authorized_keys, dotssh, keyspath>>

\* Lines 178-181: password, decoded and quoted whatever enable_password is;
\* then extra_args, id, and the test for root.
ReadPassword ==
    /\ pc = "read_password"
    /\ \E text \in PasswordInputs :
         IF text = Absent
         THEN raise("KeyError") /\ UNCHANGED <<password, extra_args, id>>
         ELSE IF b64decode(text) = DecodeError
         THEN raise("TypeError") /\ UNCHANGED <<password, extra_args, id>>
         ELSE /\ password' = quote(b64decode(text))
              /\ extra_args' = ""
              /\ id' = next_id
              /\ goto(IF name = "root" THEN "userdel" ELSE "useradd")
    /\ UNCHANGED <<inputVars, worldVars, env, workdir, log, recipe, pathVars,
                   loop_index, name, gecos, enable_password, next_id,
                   authorized_keys, dotssh, keyspath>>

\* A changed deletion: the status of userdel is not looked at.
UserDel_Unchecked ==
    /\ pc = "userdel"
    /\ \E status \in WaitStatuses :
         /\ workdir' = appsdir
         /\ log' = Append(log, [wd |-> appsdir,
                                command |-> Command("userdel", "", <<appsdir>>,
                                                    <<"root">>, -1),
                                status |-> status])
         /\ goto("useradd")
         /\ accounts' = IF Worked(status)
                        THEN {a \in accounts : a.name # "root"}
                        ELSE accounts
    /\ id' = 0
    /\ extra_args' = "--home=/root"
    /\ UNCHANGED <<inputVars, fs, meta, env, recipe, pathVars, loop_index,
                   name, gecos, enable_password, password, next_id,
                   authorized_keys, dotssh, keyspath>>

\* Lines 182-185: delete the root account of the offline root; then id and
\* extra_args for root.
UserDel ==
    /\ pc = "userdel"
    /\ \E status \in WaitStatuses :
         /\ run(appsdir, Command("userdel", "", <<appsdir>>, <<"root">>, -1),
                status, "useradd")
         /\ accounts' = IF Worked(status)
                        THEN {a \in accounts : a.name # "root"}
                        ELSE accounts
    /\ id' = IF pc' = "failed" THEN id ELSE 0
    /\ extra_args' = IF pc' = "failed" THEN extra_args ELSE "--home=/root"
    /\ UNCHANGED <<inputVars, fs, meta, env, recipe, pathVars, loop_index,
                   name, gecos, enable_password, password, next_id,
                   authorized_keys, dotssh, keyspath>>

\* A changed command line: the password option is always given.
useraddCommand_AlwaysPassword ==
    Command("useradd", "-mU", <<appsdir>>,
            <<gecos, extra_args, "--password=" \o password, name>>,
            id)

\* Lines 187-193: the useradd command line.  The password option is the
\* empty word when it is left out.
useraddCommand ==
    Command("useradd", "-mU", <<appsdir>>,
            <<gecos, extra_args,
              IF enable_password THEN "--password=" \o password ELSE "",
              name>>,
            id)

\* The home directory useradd makes for the account, under the apps
\* directory.
homeOf(args, user) ==
    IF args = "--home=/root" THEN <<"root">> ELSE <<"home", user>>

\* A changed counter: it goes on from the uid that was just used.
advance_FromUid(uid, counter) == uid + 1

\* A changed counter: it advances for every account, root too.
advance_Always(uid, counter) == counter + 1

\* Lines 195-196: the counter after an account was created with uid: it
\* advances when the uid was taken from it.
advance(uid, counter) == IF uid = counter THEN counter + 1 ELSE counter

\* Lines 187-196: create the account, then advance the counter.
UserAdd ==
    /\ pc = "useradd"
    /\ \E status \in WaitStatuses :
         /\ run(appsdir, useraddCommand, status, "keys_decode")
         /\ IF Worked(status)
            THEN /\ accounts' = accounts \cup
                      {[name |-> unquote(name), uid |-> id,
                        home |-> homeOf(extra_args, unquote(name)),
                        password |-> IF enable_password
                                     THEN unquote(password) ELSE ""]}
                 /\ fs' = fs \cup
                      {Rel(join(appsdir, homeOf(extra_args, unquote(name))))}
            ELSE UNCHANGED <<fs, accounts>>
    /\ next_id' = IF pc' = "failed" THEN next_id ELSE advance(id, next_id)
    /\ UNCHANGED <<inputVars, meta, env, recipe, pathVars, loop_index, name,
                   gecos, enable_password, password, extra_args, id,
                   authorized_keys, dotssh, keyspath>>

\* A changed test: the .ssh directory is made whatever the keys are.
KeysDecode_Always ==
    /\ pc = "keys_decode"
    /\ \E text \in KeysInputs :
         IF text = Absent
         THEN raise("KeyError")
              /\ UNCHANGED <<authorized_keys, dotssh, keyspath>>
         ELSE IF b64decode(text) = DecodeError
         THEN raise("TypeError")
              /\ UNCHANGED <<authorized_keys, dotssh, keyspath>>
         ELSE /\ authorized_keys' = b64decode(text)
              /\ dotssh' = join(appsdir, <<"home", name, ".ssh">>)
              /\ keyspath' = join(appsdir, <<"home", name, ".ssh",
                                             "authorized_keys">>)
              /\ goto("keys_mkdir")
    /\ UNCHANGED <<inputVars, worldVars, env, workdir, log, recipe, pathVars,
                   loop_index, name, gecos, enable_password, password,
                   extra_args, id, next_id>>

\* Lines 202-205: the authorized keys, decoded; without keys the entry is
\* done.
KeysDecode ==
    /\ pc = "keys_decode"
    /\ \E text \in KeysInputs :
         IF text = Absent
         THEN raise("KeyError")
              /\ UNCHANGED <<authorized_keys, dotssh, keyspath>>
         ELSE IF b64decode(text) = DecodeError
         THEN raise("TypeError")
              /\ UNCHANGED <<authorized_keys, dotssh, keyspath>>
         ELSE /\ authorized_keys' = b64decode(text)
              /\ IF Len(b64decode(text)) # 0
                 THEN /\ dotssh' = join(appsdir, <<"home", name, ".ssh">>)
                      /\ keyspath' = join(appsdir, <<"home", name, ".ssh",
                                                     "authorized_keys">>)
                      /\ goto("keys_mkdir")
                 ELSE /\ UNCHANGED <<dotssh, keyspath>>
                      /\ goto(nextUser)
    /\ UNCHANGED <<inputVars, worldVars, env, workdir, log, recipe, pathVars,
                   loop_index, name, gecos, enable_password, password,
                   extra_args, id, next_id>>

\* Line 206: os.mkdir(dotssh).
KeysMkdir ==
    /\ pc = "keys_mkdir"
    /\ \E ok \in BOOLEAN :
         /\ ok => mayCreate(dotssh)
         /\ mkdir(dotssh, ok, "keys_write")
    /\ UNCHANGED <<inputVars, meta, accounts, env, workdir, log, recipe,
                   pathVars, loop_index, userVars>>

\* Lines 207-209: write the authorized_keys file.
KeysWrite ==
    /\ pc = "keys_write"
    /\ \E ok \in BOOLEAN :
         /\ ok => exists(dotssh)
         /\ IF ok
            THEN fs' = fs \cup {Rel(keyspath)} /\ goto("keys_chmod")
            ELSE raise("IOError") /\ UNCHANGED fs
    /\ UNCHANGED <<inputVars, meta, accounts, env, workdir, log, recipe,
                   pathVars, loop_index, userVars>>

\* os.chmod(path, mode), succeeding (ok) or raising OSError.
chmod(path, mode, ok, after) ==
    IF ok
    THEN /\ meta' = [meta EXCEPT !.modes =
                       {m \in @ : m.path # Rel(path)}
                       \cup {[path |-> Rel(path), mode |-> mode]}]
         /\ goto(after)
    ELSE raise("OSError") /\ UNCHANGED meta

\* os.chown(path, uid, gid), succeeding (ok) or raising OSError.
chown(path, uid, gid, ok, after) ==
    IF ok
    THEN /\ meta' = [meta EXCEPT !.owners =
                       {m \in @ : m.path # Rel(path)}
                       \cup {[path |-> Rel(path), uid |-> uid, gid |-> gid]}]
         /\ goto(after)
    ELSE raise("OSError") /\ UNCHANGED meta

\* Line 210: the keys file is readable and writable by its owner only.
KeysChmod ==
    /\ pc = "keys_chmod"
    /\ \E ok \in BOOLEAN :
         /\ ok => exists(keyspath)
         /\ chmod(keyspath, {"S_IRUSR", "S_IWUSR"}, ok, "keys_chown")
    /\ UNCHANGED <<inputVars, fs, accounts, env, workdir, log, recipe,
                   pathVars, loop_index, userVars>>

\* A changed chown: the keys file is given to the counter's value, which
\* has moved on since the account was created.
KeysChown_Counter ==
    /\ pc = "keys_chown"
    /\ \E ok \in BOOLEAN :
         /\ ok => exists(keyspath)
         /\ chown(keyspath, next_id, next_id, ok, "dir_chmod")
    /\ UNCHANGED <<inputVars, fs, accounts, env, workdir, log, recipe,
                   pathVars, loop_index, userVars>>

\* Line 211: the keys file belongs to the account.
KeysChown ==
    /\ pc = "keys_chown"
    /\ \E ok \in BOOLEAN :
         /\ ok => exists(keyspath)
         /\ chown(keyspath, id, id, ok, "dir_chmod")
    /\ UNCHANGED <<inputVars, fs, accounts, env, workdir, log, recipe,
                   pathVars, loop_index, userVars>>

\* Lines 212-216: the mode of the .ssh directory.
DirChmod ==
    /\ pc = "dir_chmod"
    /\ \E ok \in BOOLEAN :
         /\ ok => exists(dotssh)
         /\ chmod(dotssh,
                  {"S_IRUSR", "S_IWUSR", "S_IXUSR", "S_IRGRP", "S_IWGRP",
                   "S_IXGRP", "S_IROTH", "S_IXOTH"},
                  ok, "dir_chown")
    /\ UNCHANGED <<inputVars, fs, accounts, env, workdir, log, recipe,
                   pathVars, loop_index, userVars>>

\* Line 217: the .ssh directory belongs to the account; the entry is done.
DirChown ==
    /\ pc = "dir_chown"
    /\ \E ok \in BOOLEAN :
         /\ ok => exists(dotssh)
         /\ chown(dotssh, id, id, ok, nextUser)
    /\ UNCHANGED <<inputVars, fs, accounts, env, workdir, log, recipe,
                   pathVars, loop_index, userVars>>

(***************************************************************************)
(* Build, package and upload the image: lines 219-260.                     *)
(***************************************************************************)
\* Line 223: the image size goes to the environment.
SetImageSize ==
    /\ pc = "env_size"
    /\ IF "image_size" \notin recipe.keys
       THEN raise("KeyError") /\ UNCHANGED env
       ELSE /\ env' = [env EXCEPT
                         !["CI_MIN_IMAGE_SIZE"] = str(recipe.image_size)]
            /\ goto("env_arch")
    /\ UNCHANGED <<inputVars, worldVars, workdir, log, recipe, pathVars,
                   loop_index, userVars>>

\* A changed architecture: arch is handed on as it is.
architecture_Raw(a) == a

\* Lines 230-235: the architecture the image script is given for arch.
architecture(a) == IF a = "x86q" THEN "x86" ELSE a

\* Lines 230-235: the variant the image script is given for arch; None when
\* main() does not set one.
variant(a) == IF a = "x86q" THEN "q" ELSE None

\* A changed export: a platform without a variant has VARIANT emptied.
SetArch_Cleared ==
    /\ pc = "env_arch"
    /\ env' = [env EXCEPT
                 !["ARCH"] = architecture(arch),
                 !["VARIANT"] = IF variant(arch) = None THEN ""
                                ELSE variant(arch),
                 !["DEBUG"] = "dbg"]
    /\ goto("image_script")
    /\ UNCHANGED <<inputVars, worldVars, workdir, log, recipe, pathVars,
                   loop_index, userVars>>

\* Lines 229-237: ARCH, VARIANT and DEBUG.
SetArch ==
    /\ pc = "env_arch"
    /\ env' = [env EXCEPT
                 !["ARCH"] = architecture(arch),
                 !["VARIANT"] = IF variant(arch) = None THEN @
                                ELSE variant(arch),
                 !["DEBUG"] = "dbg"]
    /\ goto("image_script")
    /\ UNCHANGED <<inputVars, worldVars, workdir, log, recipe, pathVars,
                   loop_index, userVars>>

\* Line 238: the image script of the platform; it leaves the image in the
\* binary root.
BuildImage ==
    /\ pc = "image_script"
    /\ \E status \in WaitStatuses :
         /\ run(binroot, Command("sh", "", <<image_script>>, <<>>, -1),
                status, "mv")
         /\ fs' = IF Worked(status) THEN fs \cup {<<image>>} ELSE fs
    /\ UNCHANGED <<inputVars, meta, accounts, env, recipe, pathVars,
                   loop_index, userVars>>

\* A changed rename: the image is copied, and stays under its own name too.
MoveImage_Copy ==
    /\ pc = "mv"
    /\ \E status \in WaitStatuses :
         /\ Worked(status) => <<image>> \in fs
         /\ run(binroot,
                Command("cp", "", <<>>, <<image, "minocaos.img">>, -1),
                status, "tar")
         /\ fs' = IF Worked(status)
                  THEN fs \cup {<<"minocaos.img">>}
                  ELSE fs
    /\ UNCHANGED <<inputVars, meta, accounts, env, recipe, pathVars,
                   loop_index, userVars>>

\* Lines 244-246: rename the image.
MoveImage ==
    /\ pc = "mv"
    /\ \E status \in WaitStatuses :
         /\ Worked(status) => <<image>> \in fs
         /\ run(binroot,
                Command("mv", "", <<>>, <<image, "minocaos.img">>, -1),
                status, "tar")
         /\ fs' = IF Worked(status)
                  THEN (fs \ {<<image>>}) \cup {<<"minocaos.img">>}
                  ELSE fs
    /\ UNCHANGED <<inputVars, meta, accounts, env, recipe, pathVars,
                   loop_index, userVars>>

\* Lines 247-248: compress the image.
TarImage ==
    /\ pc = "tar"
    /\ \E status \in WaitStatuses :
         /\ Worked(status) => <<"minocaos.img">> \in fs
         /\ run(binroot,
                Command("tar", "-czf", <<>>,
                        <<"minocaos.tar.gz", "./minocaos.img">>, -1),
                status, "upload")
         /\ fs' = IF Worked(status)
                  THEN fs \cup {<<"minocaos.tar.gz">>}
                  ELSE fs
    /\ UNCHANGED <<inputVars, meta, accounts, env, recipe, pathVars,
                   loop_index, userVars>>

\* A changed upload: the archive and the image are removed when the upload
\* is over, whether it succeeded or failed.
Upload_Cleanup ==
    /\ pc = "upload"
    /\ \E status \in WaitStatuses :
         run(binroot,
             Command("python", "../../../client.py --upload schedule", <<>>,
                     <<"minocaos.tar.gz", "minocaos.tar.gz">>, -1),
             status, "return")
    /\ fs' = fs \ {<<"minocaos.tar.gz">>, <<"minocaos.img">>}
    /\ UNCHANGED <<inputVars, meta, accounts, env, recipe, pathVars,
                   loop_index, userVars>>

\* Lines 254-258: hand the archive to the upload client.
Upload ==
    /\ pc = "upload"
    /\ \E status \in WaitStatuses :
         run(binroot,
             Command("python", "../../../client.py --upload schedule", <<>>,
                     <<"minocaos.tar.gz", "minocaos.tar.gz">>, -1),
             status, "return")
    /\ UNCHANGED <<inputVars, worldVars, env, recipe, pathVars, loop_index,
                   userVars>>

\* A changed end: main() never returns once the upload is through.
Finish_Wait ==
    /\ pc = "return"
    /\ UNCHANGED vars

\* Lines 259-263: main() returns 0 and the process exits with it.
Finish ==
    /\ pc = "return"
    /\ return(0)
    /\ UNCHANGED <<inputVars, worldVars, env, workdir, log, recipe, pathVars,
                   loop_index, userVars>>

(***************************************************************************)
(* The program.                                                            *)
(***************************************************************************)
Next ==
    \/ Load
    \/ Resolve
    \/ RemoveApps
    \/ MkdirApps
    \/ MkdirBin
    \/ CopyBin
    \/ MkdirLib
    \/ CopyLib
    \/ MakedirsOpkg
    \/ CopySkel
    \/ SymlinkUtils
    \/ OpkgUpdate
    \/ ForPackage
    \/ InstallPackage
    \/ ForUser
    \/ ReadName
    \/ ReadGecos
    \/ ReadEnablePassword
    \/ ReadPassword
    \/ UserDel
    \/ UserAdd
    \/ KeysDecode
    \/ KeysMkdir
    \/ KeysWrite
    \/ KeysChmod
    \/ KeysChown
    \/ DirChmod
    \/ DirChown
    \/ SetImageSize
    \/ SetArch
    \/ BuildImage
    \/ MoveImage
    \/ TarImage
    \/ Upload
    \/ Finish

Spec == Init /\ [][Next]_vars

\* The runs in which every command and every call of the file system returns:
\* main() is one thread of control, so a statement that can run does run.
FairSpec == Spec /\ WF_vars(Next)

(***************************************************************************)
(* The stages of the pipeline and the commands a run is to issue.          *)
(***************************************************************************)
\* The stage a statement of main() belongs to, numbered in pipeline order:
\* 1 Load, 2 Resolve, 3 Assemble, 4 InstallPackages, 5 ProvisionUsers,
\* 6 BuildImage, 7 Package, 8 Upload, 9 Done, 10 Failed.
StageNum(label) ==
    CASE label = "load" -> 1
      [] label = "resolve" -> 2
      [] label \in {"rmtree", "mkdir_apps", "mkdir_bin", "cp_bin",
                    "mkdir_lib", "cp_lib", "makedirs_opkg", "cp_skel",
                    "ln_loop"} -> 3
      [] label \in {"opkg_update", "for_package", "install"} -> 4
      [] label \in {"next_id", "read_name", "read_gecos", "read_enable",
                    "read_password", "userdel", "useradd", "keys_decode",
                    "keys_mkdir", "keys_write", "keys_chmod", "keys_chown",
                    "dir_chmod", "dir_chown"} -> 5
      [] label \in {"env_size", "env_arch", "image_script"} -> 6
      [] label \in {"mv", "tar"} -> 7
      [] label = "upload" -> 8
      [] label \in {"return", "done"} -> 9
      [] OTHER -> 10

\* The stage an external command belongs to.
CommandStage(c) ==
    CASE c.prog \in {"cp", "for"} -> 3
      [] c.prog = "opkg" -> 4
      [] c.prog \in {"userdel", "useradd"} -> 5
      [] c.prog = "sh" -> 6
      [] c.prog \in {"mv", "tar"} -> 7
      [] OTHER -> 8

RECURSIVE UserPlan(_)
UserPlan(names) ==
    IF names = <<>> THEN <<>>
    ELSE (IF Head(names) = "root" THEN <<"userdel">> ELSE <<>>)
         \o <<"useradd">> \o UserPlan(Tail(names))

\* The programs a complete run for recipe r invokes, in order.
Plan(r) ==
    [k \in 1..Len(SYSTEM_BIN) |-> "cp"] \o [k \in 1..Len(SYSTEM_LIB) |-> "cp"]
    \o <<"cp", "for", "opkg">> \o [k \in 1..Len(r.package_list) |-> "opkg"]
    \o UserPlan(r.user_list) \o <<"sh", "mv", "tar", "python">>

\* The programs invoked so far.
Invoked == [k \in 1..Len(log) |-> log[k].command.prog]

\* A command ended well: a normal exit with status 0.
Succeeded(entry) == entry.status = 0

AllButLastSucceeded == \A k \in 1..Len(log) - 1 : Succeeded(log[k])

(***************************************************************************)
(* C1.  The stages run at most once each and only in the order Load,       *)
(* Resolve, Assemble, InstallPackages, ProvisionUsers, BuildImage,         *)
(* Package, Upload, Done: every step stays in its stage, moves to the      *)
(* next one or fails; the commands issued are at every moment the first    *)
(* commands of the complete run's plan, so no command of a stage is issued *)
(* before all commands of the earlier stages; and every command before     *)
(* the last one issued succeeded.                                          *)
(***************************************************************************)
C1_StepInOrder ==
    \/ pc' = "failed"
    \/ StageNum(pc') = StageNum(pc)
    \/ StageNum(pc') = StageNum(pc) + 1

C1_CommandsInOrder ==
    LET plan == Plan(build_request) IN
    /\ Len(log) <= Len(plan)
    /\ \A k \in 1..Len(log) : log[k].command.prog = plan[k]
    /\ AllButLastSucceeded
    /\ log # <<>> => CommandStage(log[Len(log)].command) <= StageNum(pc)
    /\ \A k \in 1..Len(log) - 1 :
         CommandStage(log[k].command) <= CommandStage(log[k + 1].command)

C1_StagesInOrder == [][C1_StepInOrder]_vars /\ []C1_CommandsInOrder

\* A complete run with two users and a package has gone through every stage.
C1_Witness ==
    /\ pc = "done"
    /\ Len(build_request.user_list) = 2
    /\ Len(build_request.package_list) = 1
    /\ Invoked = Plan(build_request)

(***************************************************************************)
(* C2.  A command that ends with a non-zero exit status or abnormally is   *)
(* the last thing the run does: the run is Failed at once, no further      *)
(* command is invoked, and nothing is changed after it.                    *)
(***************************************************************************)
SomeCommandFailed == \E k \in 1..Len(log) : ~Succeeded(log[k])

C2_FailedIsLast ==
    \A k \in 1..Len(log) :
        ~Succeeded(log[k]) => k = Len(log) /\ pc = "failed"

C2_NothingAfterFailure ==
    SomeCommandFailed =>
        UNCHANGED <<fs, meta, accounts, env, workdir, log>>

C2_FailureIsTerminal ==
    []C2_FailedIsLast /\ [][C2_NothingAfterFailure]_vars

\* The package index refresh was killed by a signal and the run is Failed.
C2_Witness ==
    /\ pc = "failed"
    /\ log # <<>>
    /\ log[Len(log)].command.prog = "opkg"
    /\ log[Len(log)].status = 9

(***************************************************************************)
(* C3.  The exit status is 0 exactly when every stage through Upload       *)
(* succeeded, and exactly 1 after every failure.                           *)
(***************************************************************************)
C3_ExitStatus ==
    /\ exit_status \in {-1, 0, 1}
    /\ (exit_status = -1) = (pc \notin {"done", "failed"})
    /\ (exit_status = 1) = (pc = "failed")
    /\ (exit_status = 0) = (pc = "done")
    /\ pc = "done" =>
         /\ Invoked = Plan(build_request)
         /\ \A k \in 1..Len(log) : Succeeded(log[k])
         /\ build_request.keys = Keys
         /\ build_request.platform \in KnownPlatforms
    /\ (SomeCommandFailed \/ error # None) => pc = "failed"

\* A run that was refused for its platform ended with status 1.
C3_Witness ==
    /\ pc = "failed"
    /\ exit_status = 1
    /\ error = "return 1"

(***************************************************************************)
(* C4.  A recipe whose platform is none of the five known ones ends the    *)
(* run before anything is changed: no path is removed or created, no       *)
(* command is run, no environment variable is set.                         *)
(***************************************************************************)
UnknownPlatform ==
    /\ request_file = "json"
    /\ "platform" \in build_request.keys
    /\ build_request.platform \notin KnownPlatforms

C4_NothingChanges ==
    UnknownPlatform =>
        UNCHANGED <<fs, meta, accounts, env, workdir, log>>

C4_EndsAtResolve ==
    UnknownPlatform =>
        /\ pc \in {"load", "resolve", "failed"}
        /\ log = <<>>
        /\ \A v \in EnvNames : env[v] = Inherited
        /\ pc = "failed" => exit_status = 1

C4_UnknownPlatformIsInert ==
    []C4_EndsAtResolve /\ [][C4_NothingChanges]_vars

\* The run for an unknown platform has ended, over an old apps tree.
C4_Witness ==
    /\ UnknownPlatform
    /\ pc = "failed"
    /\ platform = "Amiga"
    /\ <<"apps", "stale">> \in fs

(***************************************************************************)
(* C5.  The platform table: what each known platform resolves to, as the   *)
(* architecture and variant given to the image script, the image script    *)
(* and the name of the image.                                              *)
(***************************************************************************)
PlatformTable(p) ==
    CASE p = "PC" ->
           [architecture |-> "x86", variant |-> None,
            script |-> "build_pc.sh", image |-> "pc.img"]
      [] p = "UEFI-based PC" ->
           [architecture |-> "x86", variant |-> None,
            script |-> "build_pcefi.sh", image |-> "pcefi.img"]
      [] p = "Raspberry Pi" ->
           [architecture |-> "armv6", variant |-> None,
            script |-> "build_rpi.sh", image |-> "rpi.img"]
      [] p = "TI PandaBoard" ->
           [architecture |-> "armv7", variant |-> None,
            script |-> "build_panda.sh", image |-> "panda.img"]
      [] p = "Intel Galileo" ->
           [architecture |-> "x86", variant |-> "q",
            script |-> "build_pcefi.sh", image |-> "pcefi.img"]

C5_PlatformTable ==
    arch # None =>
        LET t == PlatformTable(build_request.platform) IN
        /\ build_request.platform \in KnownPlatforms
        /\ architecture(arch) = t.architecture
        /\ variant(arch) = t.variant
        /\ image_script = join(imagescriptdir, <<t.script>>)
        /\ image = t.image
        /\ pc \in {"image_script", "mv", "tar", "upload", "return", "done"} =>
             /\ env["ARCH"] = t.architecture
             /\ t.variant # None => env["VARIANT"] = t.variant
        /\ \A k \in 1..Len(log) :
             log[k].command.prog = "sh" =>
                log[k].command.paths = <<join(imagescriptdir, <<t.script>>)>>

\* The image script of the Intel Galileo has run with ARCH=x86, VARIANT=q.
C5_Witness ==
    /\ platform = "Intel Galileo"
    /\ pc = "done"
    /\ env["ARCH"] = "x86"
    /\ env["VARIANT"] = "q"
    /\ image = "pcefi.img"

(***************************************************************************)
(* C6.  A recipe that lacks a required field fails in the Load stage:      *)
(* before the platform is resolved, before the apps directory is removed   *)
(* or made, and before any command is invoked.                             *)
(***************************************************************************)
IncompleteRecipe == request_file = "json" /\ build_request.keys # Keys

C6_MissingFieldFailsInLoad ==
    IncompleteRecipe =>
        /\ pc \in {"load", "failed"}
        /\ arch = None
        /\ log = <<>>
        /\ fs \in OldTrees

(***************************************************************************)
(* C7.  The apps directory is rebuilt from scratch: when the first file is *)
(* about to be copied into apps/bin, apps holds nothing but the new, empty *)
(* bin; nothing of an old tree is there while the run populates apps or    *)
(* later; and the assembled tree is the same whatever was there before, up *)
(* to the links the ln loop made.                                          *)
(***************************************************************************)
\* The paths the Assembler makes, without the links, relative to the binary
\* root.
AssembledTree ==
    {<<"apps">>, <<"apps", "bin">>, <<"apps", "lib">>, <<"apps", "usr">>,
     <<"apps", "usr", "lib">>, <<"apps", "usr", "lib", "opkg">>}
    \cup {<<"apps", "bin", b>> : b \in Range(SYSTEM_BIN)}
    \cup {<<"apps", "lib", l>> : l \in Range(SYSTEM_LIB)}
    \cup {<<"apps">> \o q : q \in SkelTree}

LinkPaths == {<<"apps", "bin", a>> : a \in Range(SwissList)}

C7_RebuiltFromScratch ==
    /\ (pc = "cp_bin" /\ loop_index = 0) =>
          tree(appsdir) = {<<"apps">>, <<"apps", "bin">>}
    /\ pc \notin {"load", "resolve", "rmtree", "mkdir_apps", "failed"} =>
          <<"apps", "stale">> \notin fs
    /\ pc \in {"mkdir_bin", "cp_bin"} => tree(appsdir) \subseteq AssembledTree
    /\ pc = "opkg_update" => tree(appsdir) \ LinkPaths = AssembledTree

\* Population of the apps directory is about to begin.
C7_Witness ==
    /\ pc = "cp_bin"
    /\ loop_index = 0
    /\ fs = {<<"apps">>, <<"apps", "bin">>}
    /\ log = <<>>

(***************************************************************************)
(* C8.  Packages are installed one command per entry, in the order of      *)
(* package_list; after a failed install no further package is attempted    *)
(* and no later command is invoked.                                        *)
(***************************************************************************)
IsInstall(entry) ==
    /\ entry.command.prog = "opkg"
    /\ entry.command.verb = "install --force-postinstall"

Installs == SelectSeq(log, IsInstall)

C8_InstallOrder ==
    LET list == build_request.package_list
        installs == Installs
    IN
    /\ Len(installs) <= Len(list)
    /\ \A k \in 1..Len(installs) : installs[k].command.words = <<list[k]>>
    /\ \A k \in 1..Len(log) :
         (IsInstall(log[k]) /\ ~Succeeded(log[k])) =>
            k = Len(log) /\ pc = "failed"
    /\ (\E k \in 1..Len(log) : CommandStage(log[k].command) > 4) =>
         /\ Len(installs) = Len(list)
         /\ \A k \in 1..Len(installs) : Succeeded(installs[k])
    /\ StageNum(pc) \in 5..9 => Len(installs) = Len(list)

\* The second of three packages failed to install; the third was not tried.
C8_Witness ==
    /\ pc = "failed"
    /\ Len(build_request.package_list) = 3
    /\ build_request.package_list[1] # build_request.package_list[2]
    /\ Len(Installs) = 2
    /\ IsInstall(log[Len(log)])
    /\ log[Len(log)].status = 256

(***************************************************************************)
(* C9.  The package index is refreshed exactly once in a run that reaches  *)
(* the Package Installer, before every install, and no install is invoked  *)
(* unless the refresh succeeded; so too when package_list is empty.        *)
(***************************************************************************)
IsUpdate(entry) ==
    entry.command.prog = "opkg" /\ entry.command.verb = "update"

Updates == {k \in 1..Len(log) : IsUpdate(log[k])}

C9_RefreshOnce ==
    LET updates == Updates IN
    /\ Cardinality(updates) <= 1
    /\ \A k \in 1..Len(log) :
         (IsInstall(log[k]) \/ CommandStage(log[k].command) > 4) =>
            \E u \in updates : u < k /\ Succeeded(log[u])
    /\ StageNum(pc) < 4 => updates = {}
    /\ (StageNum(pc) \in 4..9 /\ pc # "opkg_update") =>
         \E u \in updates : Succeeded(log[u])

\* A run without packages is done, and has refreshed the index once.
C9_Witness ==
    /\ pc = "done"
    /\ "package_list" \in build_request.keys
    /\ build_request.package_list = <<>>
    /\ Cardinality(Updates) = 1

(***************************************************************************)
(* C10.  The k-th user of user_list that is not root is created with UID   *)
(* 1000 + k - 1, however many root entries the list holds and wherever.    *)
(***************************************************************************)
IsUseradd(entry) == entry.command.prog = "useradd"

Useradds == SelectSeq(log, IsUseradd)

\* How many of the first j entries of list are not root.
NonRootUpTo(list, j) == Cardinality({i \in 1..j : list[i] # "root"})

C10_SequentialUids ==
    LET list == build_request.user_list
        useradds == Useradds
    IN
    /\ Len(useradds) <= Len(list)
    /\ \A j \in 1..Len(useradds) :
         /\ unquote(useradds[j].command.words[4]) = list[j]
         /\ list[j] # "root" =>
              useradds[j].command.number = 1000 + NonRootUpTo(list, j) - 1
    /\ \A a \in accounts :
         a.name # "root" =>
            \E j \in 1..Len(list) :
               list[j] = a.name /\ a.uid = 1000 + NonRootUpTo(list, j) - 1

\* alice, root, bob: bob, created after root, has UID 1001.
C10_Witness ==
    /\ build_request.user_list = <<"alice", "root", "bob">>
    /\ Len(Useradds) = 3
    /\ Useradds[1].command.number = 1000
    /\ Useradds[2].command.number = 0
    /\ Useradds[3].command.number = 1001
    /\ Succeeded(Useradds[3])
    /\ [name |-> "bob", uid |-> 1001, home |-> <<"home", "bob">>,
        password |-> ""] \in accounts

(***************************************************************************)
(* C11.  In the User Provisioner the UID counter is 1000 plus the number   *)
(* of accounts other than root created so far: it never goes down, goes up *)
(* by one exactly when such an account was created, is left alone by the   *)
(* handling of root and by a failed creation, and no UID is given to two   *)
(* accounts.                                                               *)
(***************************************************************************)
\* The useradd commands that succeeded for a name other than root.
NonRootCreated ==
    {k \in 1..Len(log) :
        /\ IsUseradd(log[k])
        /\ Succeeded(log[k])
        /\ log[k].command.words[4] # "root"}

C11_CounterCounts ==
    next_id # -1 =>
       /\ next_id = 1000 + Cardinality(NonRootCreated)
       /\ \A j, k \in NonRootCreated :
             j # k => log[j].command.number # log[k].command.number
       /\ \A a, b \in accounts : a.uid = b.uid => a.name = b.name
       /\ \A a \in accounts : a.name # "root" => a.uid \in 1000..(next_id - 1)

C11_CounterStep ==
    /\ next_id # -1 => next_id' >= next_id
    /\ (pc = "useradd" /\ pc' # "failed" /\ name # "root") =>
          next_id' = next_id + 1
    /\ (pc = "useradd" /\ (pc' = "failed" \/ name = "root")) =>
          next_id' = next_id
    /\ pc \notin {"useradd", "next_id"} => next_id' = next_id

C11_UidCounter == []C11_CounterCounts /\ [][C11_CounterStep]_vars

\* alice, root, bob were all created: the counter is at 1002.
C11_Witness ==
    /\ pc = "done"
    /\ build_request.user_list = <<"alice", "root", "bob">>
    /\ next_id = 1002
    /\ Cardinality(NonRootCreated) = 2

(***************************************************************************)
(* C12.  For an entry named root the root account is deleted first, and    *)
(* only after the deletion succeeded it is created with UID 0 and the home *)
(* directory /root; userdel is never issued for another user, and UID 0 is *)
(* never given to another user.                                            *)
(***************************************************************************)
IsUserdel(entry) == entry.command.prog = "userdel"

C12_RootAfterDelete ==
    /\ \A k \in 1..Len(log) :
         /\ (IsUseradd(log[k]) /\ log[k].command.words[4] = "root") =>
               /\ k > 1
               /\ IsUserdel(log[k - 1])
               /\ Succeeded(log[k - 1])
               /\ log[k].command.number = 0
               /\ log[k].command.words[2] = "--home=/root"
         /\ (IsUseradd(log[k]) /\ log[k].command.words[4] # "root") =>
               /\ log[k].command.number # 0
               /\ log[k].command.words[2] = ""
               /\ k > 1 => ~IsUserdel(log[k - 1])
         /\ IsUserdel(log[k]) =>
               /\ log[k].command.words = <<"root">>
               /\ log[k].command.paths = <<appsdir>>
               /\ name = "root" \/ k < Len(log)
               /\ k < Len(log) =>
                     /\ IsUseradd(log[k + 1])
                     /\ log[k + 1].command.words[4] = "root"
    /\ \A a \in accounts :
         /\ a.uid = 0 => a.name = "root"
         /\ a.name = "root" => a.uid = 0 /\ a.home = <<"root">>
    /\ pc = "userdel" => name = "root"
    /\ (pc = "useradd" /\ name = "root") =>
          /\ id = 0
          /\ log # <<>> /\ IsUserdel(log[Len(log)])
          /\ Succeeded(log[Len(log)])
    /\ (pc = "useradd" /\ name # "root") => id >= 1000

\* root, listed after alice, was deleted and created anew with UID 0.
C12_Witness ==
    /\ pc = "done"
    /\ build_request.user_list = <<"alice", "root">>
    /\ \E k \in 1..Len(log) : IsUserdel(log[k]) /\ Succeeded(log[k])
    /\ IsUseradd(log[Len(log) - 4])
    /\ log[Len(log) - 4].command.words[4] = "root"
    /\ log[Len(log) - 4].command.number = 0

(***************************************************************************)
(* C13.  The command that creates an account carries a password option if  *)
(* and only if enable_password is true for that user, and the option then  *)
(* holds that user's decoded password, in the very command that creates    *)
(* the account.                                                            *)
(***************************************************************************)
\* The passwords the texts of the model decode to.
DecodedPasswords ==
    {b64decode(t) : t \in PasswordInputs \ {Absent}} \ {DecodeError}

\* The step that issues useradd: what the command it adds to the log holds.
C13_PasswordStep ==
    pc = "useradd" =>
       LET c == log'[Len(log')].command IN
       /\ Len(log') = Len(log) + 1
       /\ c.prog = "useradd"
       /\ c.words[4] = name
       /\ (c.words[3] # "") = enable_password
       /\ enable_password =>
             /\ c.words[3] = "--password=" \o password
             /\ unquote(password) \in DecodedPasswords
       /\ \A a \in accounts' \ accounts :
             /\ a.name = unquote(name)
             /\ a.password =
                  (IF enable_password THEN unquote(password) ELSE "")

\* No other command is given a password.
C13_OnlyUseradd ==
    \A k \in 1..Len(log) :
       ~IsUseradd(log[k]) =>
          \A w \in 1..Len(log[k].command.words) :
             log[k].command.words[w] \notin
                {"--password=" \o quote(p) : p \in DecodedPasswords}

C13_PasswordIffEnabled == [][C13_PasswordStep]_vars /\ []C13_OnlyUseradd

\* Two accounts were created, one with a password and one without.
C13_Witness ==
    /\ Len(Useradds) = 2
    /\ Succeeded(Useradds[1]) /\ Succeeded(Useradds[2])
    /\ Useradds[1].command.words[3] = "--password=secret"
    /\ Useradds[2].command.words[3] = ""
    /\ \E a \in accounts : a.password = "secret"
    /\ \E a \in accounts : a.name # "root" /\ a.password = ""

(***************************************************************************)
(* C14.  For a user whose ssh_authorized_keys decode to the empty string   *)
(* no .ssh directory and no authorized_keys file is made; a .ssh directory *)
(* is made only for a user with keys, and only after that user's account   *)
(* was created.                                                            *)
(***************************************************************************)
\* The paths of a tree that are a .ssh directory or a keys file.
SshPaths(t) ==
    {q \in t : q # <<>> /\ q[Len(q)] \in {".ssh", "authorized_keys"}}

\* The statements of lines 206-217.
KeysLabels ==
    {"keys_mkdir", "keys_write", "keys_chmod", "keys_chown", "dir_chmod",
     "dir_chown"}

\* The last command was the successful useradd of the user at hand.
AccountJustCreated ==
    /\ log # <<>>
    /\ IsUseradd(log[Len(log)])
    /\ Succeeded(log[Len(log)])
    /\ log[Len(log)].command.words[4] = name

C14_KeysStep ==
    /\ SshPaths(fs') # SshPaths(fs) =>
          /\ pc \in {"keys_mkdir", "keys_write"}
          /\ authorized_keys \notin {"", None}
          /\ AccountJustCreated
          /\ SshPaths(fs') \ SshPaths(fs) \in
                {{Rel(dotssh)}, {Rel(keyspath)}}
    /\ (pc = "keys_decode" /\ authorized_keys' = "") =>
          /\ pc' \notin KeysLabels
          /\ fs' = fs /\ meta' = meta
    /\ (pc = "keys_decode" /\ pc' \in KeysLabels) =>
          /\ authorized_keys' \notin {"", None}
          /\ AccountJustCreated
    /\ (pc \notin KeysLabels /\ pc' \in KeysLabels) => pc = "keys_decode"

C14_KeysState ==
    /\ pc \in KeysLabels =>
          /\ authorized_keys \notin {"", None}
          /\ AccountJustCreated
    /\ \A q \in SshPaths(fs) :
          \E k \in 1..Len(log) :
             /\ IsUseradd(log[k])
             /\ Succeeded(log[k])
             /\ log[k].command.words[4] \in Range(q)

C14_NoKeysNoDotSsh == [][C14_KeysStep]_vars /\ []C14_KeysState

\* alice has keys and a .ssh directory; bob, created after her, has no keys
\* and none.
C14_Witness ==
    /\ pc = "done"
    /\ build_request.user_list = <<"alice", "bob">>
    /\ authorized_keys = ""
    /\ <<"apps", "home", "bob">> \in fs
    /\ <<"apps", "home", "alice", ".ssh", "authorized_keys">> \in fs
    /\ \A q \in SshPaths(fs) : "bob" \notin Range(q)

(***************************************************************************)
(* C15.  When the image script is invoked the environment holds            *)
(* MIN_IMAGE_SIZE with the recipe's image_size, ARCH with the resolved     *)
(* architecture and DEBUG with the debug tag, all set by the run after the *)
(* users were provisioned.                                                 *)
(***************************************************************************)
C15_EnvAtImageScript ==
    pc = "image_script" =>
       /\ env["MIN_IMAGE_SIZE"] = str(build_request.image_size)
       /\ env["ARCH"] = PlatformTable(platform).architecture
       /\ env["DEBUG"] = "dbg"

(***************************************************************************)
(* C16.  In the Package stage the image the image script made, named as    *)
(* the platform has it, is renamed to minocaos.img first, and only after   *)
(* the rename succeeded it is compressed into minocaos.tar.gz; after that  *)
(* minocaos.tar.gz, made from minocaos.img, is there and the platform's    *)
(* image name is not; the archive has the same name for every recipe.      *)
(***************************************************************************)
IsMove(entry) == entry.command.prog = "mv"

IsTar(entry) == entry.command.prog = "tar"

\* The archive was made: tar succeeded.
Archived == \E k \in 1..Len(log) : IsTar(log[k]) /\ Succeeded(log[k])

C16_PackageOrder ==
    \A k \in 1..Len(log) :
       /\ IsMove(log[k]) =>
             /\ k > 1
             /\ log[k - 1].command.prog = "sh"
             /\ Succeeded(log[k - 1])
             /\ log[k].wd = binroot
             /\ log[k].command.words =
                  <<PlatformTable(platform).image, "minocaos.img">>
       /\ IsTar(log[k]) =>
             /\ k > 1
             /\ IsMove(log[k - 1])
             /\ Succeeded(log[k - 1])
             /\ log[k].wd = binroot
             /\ log[k].command.words = <<"minocaos.tar.gz", "./minocaos.img">>

C16_Packaged ==
    /\ Archived =>
          /\ <<"minocaos.tar.gz">> \in fs
          /\ <<"minocaos.img">> \in fs
          /\ <<PlatformTable(platform).image>> \notin fs
    /\ pc \in {"upload", "return", "done"} => Archived

\* The step of tar: what it archives was there, under the one name.
C16_TarStep ==
    (pc = "tar" /\ pc' = "upload") =>
       /\ <<"minocaos.img">> \in fs
       /\ <<image>> \notin fs
       /\ fs' = fs \cup {<<"minocaos.tar.gz">>}

C16_RenameThenCompress ==
    []C16_PackageOrder /\ []C16_Packaged /\ [][C16_TarStep]_vars

\* The scenario of the Raspberry Pi: rpi.img was renamed and archived.
C16_Witness ==
    /\ build_request.platform = "Raspberry Pi"
    /\ build_request.package_list = <<"vim">>
    /\ build_request.user_list = <<>>
    /\ pc = "done"
    /\ env["ARCH"] = "armv6"
    /\ \E k \in 1..Len(log) :
          IsMove(log[k]) /\ log[k].command.words = <<"rpi.img", "minocaos.img">>
    /\ <<"minocaos.tar.gz">> \in fs
    /\ <<"rpi.img">> \notin fs

(***************************************************************************)
(* C17.  A failed upload ends the run as Failed with minocaos.tar.gz and   *)
(* minocaos.img in place: from the upload on the run removes and changes   *)
(* nothing of them, whether the upload succeeds or fails.                  *)
(***************************************************************************)
IsUpload(entry) == entry.command.prog = "python"

Uploaded == \E k \in 1..Len(log) : IsUpload(log[k])

C17_UploadStep ==
    (pc \in {"upload", "return"} \/ Uploaded) =>
       /\ fs' = fs
       /\ meta' = meta
       /\ accounts' = accounts
       /\ pc = "upload" =>
             /\ Len(log') = Len(log) + 1
             /\ IsUpload(log'[Len(log')])
             /\ log'[Len(log')].wd = binroot
             /\ (pc' = "failed") = ~Succeeded(log'[Len(log')])

C17_ArtifactStays ==
    Uploaded =>
       /\ <<"minocaos.tar.gz">> \in fs
       /\ <<"minocaos.img">> \in fs
       /\ IsUpload(log[Len(log)])
       /\ ~Succeeded(log[Len(log)]) => pc = "failed" /\ exit_status = 1

C17_ArtifactUntouched == [][C17_UploadStep]_vars /\ []C17_ArtifactStays

\* The upload client exited with 1: the run failed, the archive is there.
C17_Witness ==
    /\ pc = "failed"
    /\ log # <<>>
    /\ IsUpload(log[Len(log)])
    /\ log[Len(log)].status = 256
    /\ {<<"minocaos.tar.gz">>, <<"minocaos.img">>} \subseteq fs

(***************************************************************************)
(* C18.  No retry and no rollback: a command is invoked at most once for   *)
(* the step or list entry it belongs to, a failed command is never issued  *)
(* again, and after a failure nothing is undone: the tree, the accounts    *)
(* and the environment stay as the failing command left them.              *)
(***************************************************************************)
\* How many commands of the log are invocations of prog.
Count(prog) ==
    Cardinality({k \in 1..Len(log) : log[k].command.prog = prog})

\* How many entries of list are root.
Roots(list) == Cardinality({j \in 1..Len(list) : list[j] = "root"})

C18_AtMostOnce ==
    /\ Count("cp") <= Len(SYSTEM_BIN) + Len(SYSTEM_LIB) + 1
    /\ Count("for") <= 1
    /\ Cardinality(Updates) <= 1
    /\ Len(Installs) <= Len(build_request.package_list)
    /\ Count("userdel") <= Roots(build_request.user_list)
    /\ Count("useradd") <= Len(build_request.user_list)
    /\ Count("sh") <= 1
    /\ Count("mv") <= 1
    /\ Count("tar") <= 1
    /\ Count("python") <= 1
    /\ \A k \in 1..Len(log) : ~Succeeded(log[k]) => k = Len(log)

\* The step that invokes a command: but for the commands of a list entry,
\* which a list may hold twice, the command was not invoked before.
C18_NewCommandStep ==
    Len(log') > Len(log) =>
       LET e == log'[Len(log')] IN
       (~IsInstall(e) /\ ~IsUserdel(e) /\ ~IsUseradd(e)) =>
          \A k \in 1..Len(log) : log[k].command # e.command

\* The step in which a command fails, and every step after a failure.
C18_NoRollbackStep ==
    /\ (Len(log') > Len(log) /\ ~Succeeded(log'[Len(log')])) =>
          /\ pc' = "failed"
          /\ Len(log') = Len(log) + 1
          /\ fs \subseteq fs'
          /\ accounts' = accounts
          /\ env' = env
          /\ meta' = meta
    /\ pc = "failed" =>
          UNCHANGED <<fs, meta, accounts, env, log, pc>>

C18_NoRetryNoRollback ==
    /\ []C18_AtMostOnce
    /\ [][C18_NewCommandStep]_vars
    /\ [][C18_NoRollbackStep]_vars

\* The second useradd failed after a package and an account were made:
\* they are still there.
C18_Witness ==
    /\ pc = "failed"
    /\ Count("useradd") = 2
    /\ ~Succeeded(log[Len(log)])
    /\ IsUseradd(log[Len(log)])
    /\ Len(Installs) = 1
    /\ \E a \in accounts : a.name = "alice"
    /\ <<"apps", "home", "alice">> \in fs
    /\ <<"apps", "usr", "lib", "opkg", "info", "vim">> \in fs

(***************************************************************************)
(* C19.  Platform resolution is deterministic: with the same platform and  *)
(* the same working directory every run resolves to the same architecture, *)
(* variant, image script path and image name, whatever package_list,       *)
(* user_list, image_size and the tree and environment it starts with are;  *)
(* and what was resolved stays as it is for the rest of the run.           *)
(***************************************************************************)
\* What the run at hand has resolved.
Resolved ==
    [architecture |-> architecture(arch), variant |-> variant(arch),
     image_script |-> image_script, image |-> image]

\* The one profile of a platform, for a script started in StartDir.
ProfileOf(p) ==
    LET images == StartDir \o <<"..", "..", "tasks", "images">> IN
    CASE p = "PC" ->
           [architecture |-> "x86", variant |-> None,
            image_script |-> images \o <<"build_pc.sh">>, image |-> "pc.img"]
      [] p = "UEFI-based PC" ->
           [architecture |-> "x86", variant |-> None,
            image_script |-> images \o <<"build_pcefi.sh">>,
            image |-> "pcefi.img"]
      [] p = "Raspberry Pi" ->
           [architecture |-> "armv6", variant |-> None,
            image_script |-> images \o <<"build_rpi.sh">>,
            image |-> "rpi.img"]
      [] p = "TI PandaBoard" ->
           [architecture |-> "armv7", variant |-> None,
            image_script |-> images \o <<"build_panda.sh">>,
            image |-> "panda.img"]
      [] OTHER ->
           [architecture |-> "x86", variant |-> "q",
            image_script |-> images \o <<"build_pcefi.sh">>,
            image |-> "pcefi.img"]

C19_SameProfile ==
    (platform \in KnownPlatforms /\ pc # "resolve") =>
       /\ platform = build_request.platform
       /\ Resolved = ProfileOf(build_request.platform)

C19_ResolvedOnce ==
    pc \notin {"load", "resolve"} =>
       UNCHANGED <<platform, arch, image_script, image, binroot, pkgroot>>

C19_ResolveDeterministic == []C19_SameProfile /\ [][C19_ResolvedOnce]_vars

\* A TI PandaBoard build with a package and a user, past the user loop,
\* resolved as every other one does.
C19_Witness ==
    /\ build_request.platform = "TI PandaBoard"
    /\ build_request.package_list # <<>>
    /\ build_request.user_list # <<>>
    /\ pc = "env_arch"
    /\ Resolved = ProfileOf("TI PandaBoard")
    /\ <<"apps", "stale">> \notin fs
    /\ accounts # {}

(***************************************************************************)
(* C20.  For a user with keys the .ssh directory and the keys file are     *)
(* made in the home directory the account was created with: /root/.ssh     *)
(* for root, the directory named after the user for every other user.      *)
(***************************************************************************)
C20_KeysInHome ==
    pc = "keys_mkdir" =>
       /\ Rel(dotssh) =
            <<"apps">> \o homeOf(extra_args, unquote(name)) \o <<".ssh">>
       /\ Rel(keyspath) =
            <<"apps">> \o homeOf(extra_args, unquote(name))
               \o <<".ssh", "authorized_keys">>
       /\ \E a \in accounts :
            /\ a.name = unquote(name)
            /\ Rel(dotssh) = <<"apps">> \o a.home \o <<".ssh">>

(***************************************************************************)
(* C21.  Once a user with keys is provisioned, the authorized_keys file    *)
(* can be read and written by its owner and by nobody else, the file and   *)
(* its .ssh directory belong to the UID and GID the account was created    *)
(* with (0 for root, else the counter's value before it advanced), and the *)
(* .ssh directory cannot be written by others.                             *)
(***************************************************************************)
\* The .ssh directories of the users that are done with: line 217, the last
\* statement for a user, has given the directory away.
Provisioned ==
    {q \in fs : /\ q # <<>>
                /\ q[Len(q)] = ".ssh"
                /\ \E o \in meta.owners : o.path = q}

\* The UID the account of the user at hand was created with.
CreatedUid == log[Len(log)].command.number

C21_KeysOwner ==
    /\ pc \in KeysLabels =>
          /\ id = CreatedUid
          /\ \E a \in accounts : a.name = unquote(name) /\ a.uid = id
          /\ name = "root" => id = 0
          /\ name # "root" => id = next_id - 1
    /\ \A q \in Provisioned :
          LET file == q \o <<"authorized_keys">>
              uid == (CHOOSE a \in accounts : a.name = unquote(q[3])).uid
          IN  /\ file \in fs
              /\ \A m \in meta.modes :
                    /\ m.path = file => m.mode = {"S_IRUSR", "S_IWUSR"}
                    /\ m.path = q => "S_IWOTH" \notin m.mode
              /\ \E m \in meta.modes : m.path = file
              /\ \E m \in meta.modes : m.path = q
              /\ \A o \in meta.owners :
                    o.path \in {q, file} => o.uid = uid /\ o.gid = uid
              /\ \E o \in meta.owners : o.path = file

\* The steps of lines 210-217 give the paths to the UID of the account.
C21_ChownStep ==
    meta'.owners # meta.owners =>
       /\ pc \in {"keys_chown", "dir_chown"}
       /\ meta'.owners \ meta.owners =
            {[path |-> Rel(IF pc = "keys_chown" THEN keyspath ELSE dotssh),
              uid |-> CreatedUid, gid |-> CreatedUid]}

C21_KeysPermissions == []C21_KeysOwner /\ [][C21_ChownStep]_vars

\* bob, the second user, is done with: his keys are his own, UID 1001.
C21_Witness ==
    /\ pc = "env_size"
    /\ build_request.user_list = <<"alice", "bob">>
    /\ [path |-> <<"apps", "home", "bob", ".ssh", "authorized_keys">>,
        mode |-> {"S_IRUSR", "S_IWUSR"}] \in meta.modes
    /\ [path |-> <<"apps", "home", "bob", ".ssh", "authorized_keys">>,
        uid |-> 1001, gid |-> 1001] \in meta.owners
    /\ [path |-> <<"apps", "home", "bob", ".ssh">>,
        uid |-> 1001, gid |-> 1001] \in meta.owners
    /\ next_id = 1002

(***************************************************************************)
(* C22.  The six steps that assemble the tree each succeed before the next *)
(* begins: when the link of any one command name cannot be made, the run   *)
(* aborts and the package index is never refreshed.  So a run that stands  *)
(* at the refresh, or has run an opkg command, has every link in apps/bin. *)
(***************************************************************************)
C22_EveryLinkOrAbort ==
    (\/ pc = "opkg_update"
     \/ \E k \in 1..Len(log) : log[k].command.prog = "opkg")
       => LinkPaths \subseteq fs

(***************************************************************************)
(* C23.  VARIANT is set exactly when the platform is the Intel Galileo,    *)
(* whose image script runs with ARCH=x86 and VARIANT=q; for any other      *)
(* known platform VARIANT stays what the parent process left, neither set  *)
(* nor cleared, and ARCH is the architecture of the profile.               *)
(***************************************************************************)
\* The image script has been invoked: the environment it was given.
C23_ScriptEnv ==
    (\E k \in 1..Len(log) : log[k].command.prog = "sh") =>
        /\ build_request.platform \in KnownPlatforms
        /\ IF build_request.platform = "Intel Galileo"
           THEN env["ARCH"] = "x86" /\ env["VARIANT"] = "q"
           ELSE /\ env["VARIANT"] = Inherited
                /\ env["ARCH"] = PlatformTable(build_request.platform).architecture

\* VARIANT changes in one step only: the export of lines 230-232 for the
\* Intel Galileo; ARCH changes in the export step of every platform.
C23_VariantStep ==
    /\ env'["VARIANT"] # env["VARIANT"] =>
          /\ pc = "env_arch"
          /\ build_request.platform = "Intel Galileo"
          /\ env'["VARIANT"] = "q"
    /\ (pc = "env_arch" /\ build_request.platform = "Intel Galileo") =>
          env'["VARIANT"] = "q"
    /\ env'["ARCH"] # env["ARCH"] => pc = "env_arch"

C23_VariantOnlyForGalileo == []C23_ScriptEnv /\ [][C23_VariantStep]_vars

\* The image script of a Raspberry Pi has run: ARCH is armv6 and VARIANT is
\* still the parent's.
C23_Witness ==
    /\ build_request.platform = "Raspberry Pi"
    /\ pc = "mv"
    /\ log[Len(log)].command.prog = "sh"
    /\ env["ARCH"] = "armv6"
    /\ env["VARIANT"] = Inherited

(***************************************************************************)
(* C24.  For every known platform the binary root and the package root are *)
(* the directories named after the architecture of the resolved profile,   *)
(* the string that the image script is given as ARCH.                      *)
(***************************************************************************)
C24_RootsNamedAfterArch ==
    (\E k \in 1..Len(log) : log[k].command.prog = "sh") =>
        /\ binroot = normpath(join(cwd, <<"..", env["ARCH"], "bin">>))
        /\ pkgroot = normpath(join(cwd, <<"..", env["ARCH"], "packages">>))

\* The tag a build of platform p goes by: the exported architecture followed
\* by the variant when there is one.
BuildTag(p) ==
    IF p = "Intel Galileo" THEN "x86q" ELSE PlatformTable(p).architecture

\* C24, as the code has it: the roots are named after the build tag of the
\* platform: x86q for the Intel Galileo, whose ARCH is x86 and VARIANT q, and
\* ARCH itself for every other known platform.
C24_RootsNamedAfterTag ==
    (\E k \in 1..Len(log) : log[k].command.prog = "sh") =>
        LET tag == BuildTag(build_request.platform) IN
        /\ binroot = normpath(join(cwd, <<"..", tag, "bin">>))
        /\ pkgroot = normpath(join(cwd, <<"..", tag, "packages">>))
        /\ appsdir = join(binroot, <<"apps">>)
        /\ log[Len(log)].command.prog = "sh" => log[Len(log)].wd = binroot
        /\ build_request.platform # "Intel Galileo" => tag = env["ARCH"]
        /\ build_request.platform = "Intel Galileo" =>
              env["ARCH"] = "x86" /\ env["VARIANT"] = "q"

\* The image script of the Intel Galileo has run in ../x86q/bin with
\* ARCH=x86.
C24_Witness ==
    /\ build_request.platform = "Intel Galileo"
    /\ pc = "mv"
    /\ log[Len(log)].command.prog = "sh"
    /\ log[Len(log)].wd = <<"/", "w", "x86q", "bin">>
    /\ pkgroot = <<"/", "w", "x86q", "packages">>
    /\ env["ARCH"] = "x86"

(***************************************************************************)
(* C25.  A user's fields are decoded before any account command for that   *)
(* user, and the password is decoded only when enable_password is true: a  *)
(* user with enable_password false never fails on a password that is not   *)
(* base64, while a gecos, or a password with enable_password true, that    *)
(* does not decode ends the run before userdel or useradd for that user.   *)
(***************************************************************************)
C25_DecodeStep ==
    /\ (pc = "read_password" /\ ~enable_password) => error' # "TypeError"
    /\ (pc \in {"read_gecos", "read_password"} /\ error' = "TypeError") =>
          pc' = "failed" /\ log' = log /\ accounts' = accounts
    /\ (pc \in {"userdel", "useradd"} /\ log' # log) =>
          /\ gecos # None
          /\ enable_password => password # None

C25_PasswordDecodedIfEnabled == [][C25_DecodeStep]_vars

(***************************************************************************)
(* C26.  Every run ends: when every command and every call of the file     *)
(* system returns, the run reaches one of the two final states, done or    *)
(* failed, and stays there; done is reached only after the upload command  *)
(* succeeded.                                                              *)
(***************************************************************************)
Terminated == pc \in {"done", "failed"}

C26_DoneAfterUpload ==
    /\ pc = "done" =>
          /\ exit_status = 0
          /\ log # <<>>
          /\ IsUpload(log[Len(log)])
          /\ Succeeded(log[Len(log)])
    /\ pc = "failed" => exit_status # 0

\* A final state is final: nothing changes any more.
C26_FinalStep == Terminated => UNCHANGED vars

C26_Terminates ==
    /\ <>Terminated
    /\ []C26_DoneAfterUpload
    /\ [][C26_FinalStep]_vars

\* A run with two packages and a user has come to its end after an upload
\* that succeeded.
C26_Witness ==
    /\ pc = "done"
    /\ Len(build_request.package_list) = 2
    /\ Len(build_request.user_list) = 1
    /\ IsUpload(log[Len(log)])
    /\ Succeeded(log[Len(log)])

=============================================================================
